---- MODULE Spec2Model ----
(***************************************************************************)
(* MiniRTOS (src/minirtos.c, src/Examples/Nucleo_F401RE/Common/minirtos.h) *)
(*                                                                         *)
(* Two independent components:                                             *)
(*   - the ring-buffer queue (minirtos_Queue_Create .. Flush), called from *)
(*     main-line code and from an interrupt handler, protected by the      *)
(*     PRIMASK critical-section macros;                                    *)
(*   - the cooperative task scheduler (minirtos_Init .. minirtos_Scheduler)*)
(*     working on a circular list of caller-owned task descriptors.        *)
(*                                                                         *)
(* Integer widths are scaled down (TLC integers are 32 bit): uint16_t is   *)
(* modelled with U16Bits bits, uint8_t with U8Bits bits, the uint32_t      *)
(* fields with U32Bits bits and the uintmax_t tick counter with UMaxBits   *)
(* bits.  All arithmetic wraps at the modelled width exactly where the C   *)
(* code wraps at the real one.                                             *)
(***************************************************************************)
EXTENDS Integers, Sequences, FiniteSets, TLC

(***************************************************************************)
(* Bounds of the model.                                                    *)
(***************************************************************************)
\* width of uint16_t (elementSize, maxElements, head, tail, count, idx)
U16Bits == 5
\* number of Send calls made on a queue in one run
MaxSends == 4

\* width of uint8_t (glbNumberOfTasks)
U8Bits == 2
\* width of uint32_t (taskInterval, plannedTask)
U32Bits == 3
\* width of uintmax_t (glbSysTicks, elapsedTime)
UMaxBits == 5
\* MAX_TASK_INTERVAL and DEFAULT_TASK_INTERVAL (3600000 and 100 in
\* minirtos.h), scaled with the uint32_t width: as in the source,
\* DEFAULT_TASK_INTERVAL < MAX_TASK_INTERVAL < half the range of uint32_t
MAX_TASK_INTERVAL == 3
DEFAULT_TASK_INTERVAL == 2

\* MAX_NO_OF_QUEUE_ELEMENTS (20 in minirtos.h), scaled so that a queue of
\* that capacity can be filled within MaxSends calls
MAX_NO_OF_QUEUE_ELEMENTS == 3

U16 == 2 ^ U16Bits
U8 == 2 ^ U8Bits
U32 == 2 ^ U32Bits
UMax == 2 ^ UMaxBits

(***************************************************************************)
(* Program constants.                                                      *)
(***************************************************************************)
\* 255 in minirtos.h: the largest value of the uint8_t task counter
MAX_TASKS_NUMBER == U8 - 1

\* Task_Status_e
TASK_PAUSE == 0
TASK_SCHEDULED == 1
TASK_ONE_SHOT == 2
TASK_RUN_NOW == 3
TASK_ONE_SHOT_NOW == 5
TASK_RUNNING == 6
TASK_NOT_FOUND == 255

NULL == "NULL"

(***************************************************************************)
(* Queue: inputs the callers draw from.                                    *)
(***************************************************************************)
\* element sizes passed to Create: absent (0), small, and the largest uint16_t
ElementSizes == {0, 2, U16 - 1}
\* capacities passed to Create
Capacities == {0, 1, MAX_NO_OF_QUEUE_ELEMENTS, MAX_NO_OF_QUEUE_ELEMENTS + 1}
\* payload bytes; a message is elementSize bytes, and the k-th Send call
\* carries the byte k, so that all messages differ
Bytes == 1 .. MaxSends
\* content of caller memory that was never written by the queue
Blank == 0
\* the two execution contexts: main-line code and one interrupt handler
Ctx == {"main", "isr"}

Msg(b, es) == [j \in 0 .. es - 1 |-> b]

VARIABLES
    q,          \* Queue_Descriptor_t: elementSize, maxElements, head, tail, count
    qbuf,       \* the caller-owned byte buffer q.buffer points to
    qCreated,   \* Create has succeeded on the descriptor
    PRIMASK,    \* the core's interrupt mask register (1 = interrupts masked)
    pc,         \* per context: position inside the queue operation it runs
    loc,        \* per context: locals of the running operation (primask, msg, idx)
    rx,         \* per context: the destination buffer handed to Receive
    sentLog,    \* history: messages successfully sent since the last Create/Flush
    recvLog,    \* history: messages successfully received since then
    nSends,     \* history: number of Send calls made
    flushed,    \* history: a Flush has emptied the queue since it was created
    qret,       \* history: the last completed call (context, operation, result)
    glbInitialized,     \* uint8_t glbInitialized
    glbNumberOfTasks,   \* uint8_t glbNumberOfTasks
    glbSysTicks,        \* volatile uintmax_t glbSysTicks
    gptrTaskSchedule,   \* the dispatch cursor
    gptrTaskFirst,      \* the head of the circular list
    task,       \* the caller-owned Task_Descriptor_t records
    fault,      \* "none", or the undefined behaviour / endless loop the program ran into
    last,       \* history: the scheduler step just taken (operation, result)
    added,      \* history: the records added successfully since minirtos_Init, in order
    addsOnly    \* history: since minirtos_Init every successful call that changed the
                \* list was an AddTask of a record not yet added

qvars == <<q, qbuf, qCreated, PRIMASK, pc, loc, rx, sentLog, recvLog, nSends, qret,
          flushed>>

svars == <<glbInitialized, glbNumberOfTasks, glbSysTicks, gptrTaskSchedule, gptrTaskFirst,
           task, fault, last, added, addsOnly>>

vars == <<qvars, svars>>

NoRet == [ctx |-> "none", op |-> "none", ok |-> FALSE, value |-> 0]

\* primask, msg: the locals and the argument of the running call;
\* entryMask: history, PRIMASK when the call was made
NoLoc == [primask |-> 0, msg |-> << >>, entryMask |-> 0]

QInit ==
    /\ q = [elementSize |-> 0, maxElements |-> 0, head |-> 0, tail |-> 0, count |-> 0]
    /\ qbuf = [j \in {} |-> Blank]
    /\ qCreated = FALSE
    /\ PRIMASK = 0
    /\ pc = [c \in Ctx |-> IF c = "isr" THEN "out" ELSE "idle"]
    /\ loc = [c \in Ctx |-> NoLoc]
    /\ rx = [c \in Ctx |-> [j \in {} |-> Blank]]
    /\ sentLog = << >>
    /\ recvLog = << >>
    /\ nSends = 0
    /\ qret = NoRet
    /\ flushed = FALSE

(***************************************************************************)
(* Execution contexts.  The interrupt handler is taken only while PRIMASK  *)
(* is 0 and runs one queue operation to completion; main-line code runs    *)
(* only while no handler is active.                                        *)
(***************************************************************************)
Rest(c) == IF c = "isr" THEN "out" ELSE "idle"

\* context c may start a call: main between two calls, the handler when taken
Ready(c) ==
    IF c = "main"
    THEN pc["main"] = "idle" /\ pc["isr"] = "out"
    ELSE pc["isr"] = "out" /\ PRIMASK = 0 /\ qCreated

\* context c executes its next statement
Runs(c, at) == pc[c] = at /\ (c = "isr" \/ pc["isr"] = "out")

\* number of elements sent and not yet received, from the history
Pending == Len(sentLog) - Len(recvLog)

(***************************************************************************)
(* MINIRTOS_QUEUE_ENTER_CRITICAL / MINIRTOS_QUEUE_EXIT_CRITICAL            *)
(***************************************************************************)
\* uint32_t primask = __get_PRIMASK();
SavePrimask(c, msg) ==
    /\ loc' = [loc EXCEPT ![c] = [primask |-> PRIMASK, msg |-> msg, entryMask |-> PRIMASK]]
    /\ qret' = NoRet

MaskInterrupts_NoMask == PRIMASK' = PRIMASK

\* __set_PRIMASK(1)
MaskInterrupts == PRIMASK' = 1

ExitCritical_AlwaysEnable(c) == PRIMASK' = 0

\* __set_PRIMASK(primask)
MINIRTOS_QUEUE_EXIT_CRITICAL(c) == PRIMASK' = loc[c].primask

\* history of the call that returns
Return(c, op, ok, value) ==
    /\ pc' = [pc EXCEPT ![c] = Rest(c)]
    /\ qret' = [ctx |-> c, op |-> op, ok |-> ok, value |-> value]
    /\ loc' = [loc EXCEPT ![c] = NoLoc]

(***************************************************************************)
(* minirtos_Queue_Create                                                   *)
(***************************************************************************)
ClampElements_None(maxElements) == maxElements

\* if (maxElements > MAX_NO_OF_QUEUE_ELEMENTS) ... (lines 71-78)
ClampElements(maxElements) ==
    IF maxElements > MAX_NO_OF_QUEUE_ELEMENTS
    THEN MAX_NO_OF_QUEUE_ELEMENTS
    ELSE maxElements

minirtos_Queue_Create(ptrqPresent, bufPresent, elementSize, maxElements) ==
    /\ Ready("main")
    /\ ~qCreated
    /\ IF ~ptrqPresent \/ ~bufPresent \/ elementSize = 0 \/ maxElements = 0
       THEN /\ qret' = [ctx |-> "main", op |-> "create", ok |-> FALSE, value |-> 0]
            /\ UNCHANGED <<q, qbuf, qCreated, sentLog, recvLog>>
       ELSE /\ q' = [elementSize |-> elementSize,
                     maxElements |-> ClampElements(maxElements),
                     head |-> 0, tail |-> 0, count |-> 0]
            /\ qbuf' = [j \in 0 .. elementSize * ClampElements(maxElements) - 1 |-> Blank]
            /\ qCreated' = TRUE
            /\ sentLog' = << >>
            /\ recvLog' = << >>
            /\ qret' = [ctx |-> "main", op |-> "create", ok |-> TRUE, value |-> 0]
    /\ UNCHANGED <<PRIMASK, pc, loc, rx, nSends, flushed>>
    /\ UNCHANGED svars

(***************************************************************************)
(* minirtos_Queue_Send                                                     *)
(***************************************************************************)
\* the call and the first statement of MINIRTOS_QUEUE_ENTER_CRITICAL
SendCall(c, b) ==
    /\ Ready(c) /\ qCreated
    /\ nSends < MaxSends
    /\ nSends' = nSends + 1
    /\ SavePrimask(c, Msg(b, q.elementSize))
    /\ pc' = [pc EXCEPT ![c] = "send_mask"]
    /\ UNCHANGED <<q, qbuf, qCreated, PRIMASK, rx, sentLog, recvLog, flushed>>
    /\ UNCHANGED svars

SendMask(c) ==
    /\ Runs(c, "send_mask")
    /\ MaskInterrupts
    /\ pc' = [pc EXCEPT ![c] = "send_check"]
    /\ UNCHANGED <<q, qbuf, qCreated, loc, rx, sentLog, recvLog, qret, nSends, flushed>>
    /\ UNCHANGED svars

QueueFull_OffByOne == q.count + 1 = q.maxElements

\* if (ptrq->count == ptrq->maxElements)
QueueFull == q.count = q.maxElements

SendCheck(c) ==
    /\ Runs(c, "send_check")
    /\ IF QueueFull
       THEN /\ MINIRTOS_QUEUE_EXIT_CRITICAL(c)
            /\ Return(c, "send", FALSE, 0)
       ELSE /\ pc' = [pc EXCEPT ![c] = "send_copy"]
            /\ UNCHANGED <<PRIMASK, qret, loc>>
    /\ UNCHANGED <<q, qbuf, qCreated, rx, sentLog, recvLog, nSends, flushed>>
    /\ UNCHANGED svars

\* uint16_t idx = (ptrq->tail * ptrq->elementSize), truncated to uint16_t
SlotIndex(i) == (i * q.elementSize) % U16

\* memcpy(&ptrbuf[idx], ptrmsg, ptrq->elementSize)
SendCopy(c) ==
    /\ Runs(c, "send_copy")
    /\ LET idx == SlotIndex(q.tail) IN
       /\ qbuf' = [j \in DOMAIN qbuf |->
                     IF j >= idx /\ j < idx + q.elementSize
                     THEN loc[c].msg[j - idx] ELSE qbuf[j]]
    /\ pc' = [pc EXCEPT ![c] = "send_tail"]
    /\ UNCHANGED <<q, qCreated, PRIMASK, loc, rx, sentLog, recvLog, qret, nSends, flushed>>
    /\ UNCHANGED svars

\* ptrq->tail = (ptrq->tail + 1) % ptrq->maxElements
NextSlot_NoWrap(i) == i + 1

\* (ptrq->tail + 1) % ptrq->maxElements, and the same for head
NextSlot(i) == (i + 1) % q.maxElements

SendTail(c) ==
    /\ Runs(c, "send_tail")
    /\ q' = [q EXCEPT !.tail = NextSlot(q.tail)]
    /\ pc' = [pc EXCEPT ![c] = "send_count"]
    /\ UNCHANGED <<qbuf, qCreated, PRIMASK, loc, rx, sentLog, recvLog, qret, nSends, flushed>>
    /\ UNCHANGED svars

\* ptrq->count++
SendCount(c) ==
    /\ Runs(c, "send_count")
    /\ q' = [q EXCEPT !.count = (q.count + 1) % U16]
    /\ sentLog' = Append(sentLog, loc[c].msg)
    /\ pc' = [pc EXCEPT ![c] = "send_exit"]
    /\ UNCHANGED <<qbuf, qCreated, PRIMASK, loc, rx, recvLog, qret, nSends, flushed>>
    /\ UNCHANGED svars

SendExit(c) ==
    /\ Runs(c, "send_exit")
    /\ MINIRTOS_QUEUE_EXIT_CRITICAL(c)
    /\ Return(c, "send", TRUE, 0)
    /\ UNCHANGED <<q, qbuf, qCreated, rx, sentLog, recvLog, nSends, flushed>>
    /\ UNCHANGED svars

(***************************************************************************)
(* minirtos_Queue_Receive                                                  *)
(***************************************************************************)
\* the call, with a destination buffer of elementSize bytes, and the first
\* statement of MINIRTOS_QUEUE_ENTER_CRITICAL
ReceiveCall(c) ==
    /\ Ready(c) /\ qCreated
    /\ SavePrimask(c, << >>)
    /\ rx' = [rx EXCEPT ![c] = Msg(Blank, q.elementSize)]
    /\ pc' = [pc EXCEPT ![c] = "recv_mask"]
    /\ UNCHANGED <<q, qbuf, qCreated, PRIMASK, sentLog, recvLog, nSends, flushed>>
    /\ UNCHANGED svars

ReceiveMask(c) ==
    /\ Runs(c, "recv_mask")
    /\ MaskInterrupts
    /\ pc' = [pc EXCEPT ![c] = "recv_check"]
    /\ UNCHANGED <<q, qbuf, qCreated, loc, rx, sentLog, recvLog, qret, nSends, flushed>>
    /\ UNCHANGED svars

\* if (ptrq->count == 0)
QueueEmpty == q.count = 0

ReceiveCheck(c) ==
    /\ Runs(c, "recv_check")
    /\ IF QueueEmpty
       THEN /\ MINIRTOS_QUEUE_EXIT_CRITICAL(c)
            /\ Return(c, "receive", FALSE, 0)
       ELSE /\ pc' = [pc EXCEPT ![c] = "recv_copy"]
            /\ UNCHANGED <<PRIMASK, qret, loc>>
    /\ UNCHANGED <<q, qbuf, qCreated, rx, sentLog, recvLog, nSends, flushed>>
    /\ UNCHANGED svars

\* memcpy(ptrmsg, &ptrbuf[idx], ptrq->elementSize)
ReceiveCopy(c) ==
    /\ Runs(c, "recv_copy")
    /\ LET idx == SlotIndex(q.head) IN
       /\ rx' = [rx EXCEPT ![c] = [j \in 0 .. q.elementSize - 1 |-> qbuf[idx + j]]]
    /\ pc' = [pc EXCEPT ![c] = "recv_head"]
    /\ UNCHANGED <<q, qbuf, qCreated, PRIMASK, loc, sentLog, recvLog, qret, nSends, flushed>>
    /\ UNCHANGED svars

\* ptrq->head = (ptrq->head + 1) % ptrq->maxElements
ReceiveHead(c) ==
    /\ Runs(c, "recv_head")
    /\ q' = [q EXCEPT !.head = NextSlot(q.head)]
    /\ pc' = [pc EXCEPT ![c] = "recv_count"]
    /\ UNCHANGED <<qbuf, qCreated, PRIMASK, loc, rx, sentLog, recvLog, qret, nSends, flushed>>
    /\ UNCHANGED svars

\* ptrq->count--
ReceiveCount(c) ==
    /\ Runs(c, "recv_count")
    /\ q' = [q EXCEPT !.count = (q.count - 1) % U16]
    /\ recvLog' = Append(recvLog, rx[c])
    /\ pc' = [pc EXCEPT ![c] = "recv_exit"]
    /\ UNCHANGED <<qbuf, qCreated, PRIMASK, loc, rx, sentLog, qret, nSends, flushed>>
    /\ UNCHANGED svars

ReceiveExit(c) ==
    /\ Runs(c, "recv_exit")
    /\ MINIRTOS_QUEUE_EXIT_CRITICAL(c)
    /\ Return(c, "receive", TRUE, 0)
    \* the caller takes the message out of its buffer (it is kept in recvLog)
    /\ rx' = [rx EXCEPT ![c] = [j \in {} |-> Blank]]
    /\ UNCHANGED <<q, qbuf, qCreated, sentLog, recvLog, nSends, flushed>>
    /\ UNCHANGED svars

(***************************************************************************)
(* minirtos_Queue_Count                                                    *)
(***************************************************************************)
minirtos_Queue_Count(c) ==
    /\ Ready(c) /\ qCreated
    /\ qret' = [ctx |-> c, op |-> "count", ok |-> TRUE, value |-> q.count]
    /\ UNCHANGED <<q, qbuf, qCreated, PRIMASK, pc, loc, rx, sentLog, recvLog, nSends, flushed>>
    /\ UNCHANGED svars

(***************************************************************************)
(* minirtos_Queue_Flush                                                    *)
(***************************************************************************)
FlushCall(c) ==
    /\ Ready(c) /\ qCreated
    /\ SavePrimask(c, << >>)
    /\ pc' = [pc EXCEPT ![c] = "flush_mask"]
    /\ UNCHANGED <<q, qbuf, qCreated, PRIMASK, rx, sentLog, recvLog, nSends, flushed>>
    /\ UNCHANGED svars

FlushMask(c) ==
    /\ Runs(c, "flush_mask")
    /\ MaskInterrupts
    /\ pc' = [pc EXCEPT ![c] = "flush_head"]
    /\ UNCHANGED <<q, qbuf, qCreated, loc, rx, sentLog, recvLog, qret, nSends, flushed>>
    /\ UNCHANGED svars

\* ptrq->head = 0
FlushHead(c) ==
    /\ Runs(c, "flush_head")
    /\ q' = [q EXCEPT !.head = 0]
    /\ pc' = [pc EXCEPT ![c] = "flush_tail"]
    /\ UNCHANGED <<qbuf, qCreated, PRIMASK, loc, rx, sentLog, recvLog, qret, nSends, flushed>>
    /\ UNCHANGED svars

\* ptrq->tail = 0
FlushTail(c) ==
    /\ Runs(c, "flush_tail")
    /\ q' = [q EXCEPT !.tail = 0]
    /\ pc' = [pc EXCEPT ![c] = "flush_count"]
    /\ UNCHANGED <<qbuf, qCreated, PRIMASK, loc, rx, sentLog, recvLog, qret, nSends, flushed>>
    /\ UNCHANGED svars

\* ptrq->count = 0
FlushCount(c) ==
    /\ Runs(c, "flush_count")
    /\ q' = [q EXCEPT !.count = 0]
    /\ sentLog' = << >>
    /\ recvLog' = << >>
    /\ pc' = [pc EXCEPT ![c] = "flush_exit"]
    /\ flushed' = TRUE
    /\ UNCHANGED <<qbuf, qCreated, PRIMASK, loc, rx, qret, nSends>>
    /\ UNCHANGED svars

FlushExit(c) ==
    /\ Runs(c, "flush_exit")
    /\ MINIRTOS_QUEUE_EXIT_CRITICAL(c)
    /\ Return(c, "flush", TRUE, 0)
    /\ UNCHANGED <<q, qbuf, qCreated, rx, sentLog, recvLog, nSends, flushed>>
    /\ UNCHANGED svars

(***************************************************************************)
(* Main-line code entering or leaving a masked region of its own           *)
(* (__disable_irq / __enable_irq around its calls).                        *)
(***************************************************************************)
MainSetMask(m) ==
    /\ Ready("main")
    /\ PRIMASK # m
    /\ PRIMASK' = m
    /\ UNCHANGED <<q, qbuf, qCreated, pc, loc, rx, sentLog, recvLog, qret, nSends, flushed>>
    /\ UNCHANGED svars

QNext ==
    \/ \E p \in BOOLEAN, b \in BOOLEAN, es \in ElementSizes, n \in Capacities :
          minirtos_Queue_Create(p, b, es, n)
    \/ \E m \in {0, 1} : MainSetMask(m)
    \/ \E c \in Ctx :
          \/ \E b \in Bytes : b = nSends + 1 /\ SendCall(c, b)
          \/ SendMask(c) \/ SendCheck(c) \/ SendCopy(c) \/ SendTail(c)
          \/ SendCount(c) \/ SendExit(c)
          \/ ReceiveCall(c) \/ ReceiveMask(c) \/ ReceiveCheck(c) \/ ReceiveCopy(c)
          \/ ReceiveHead(c) \/ ReceiveCount(c) \/ ReceiveExit(c)
          \/ minirtos_Queue_Count(c)
          \/ FlushCall(c) \/ FlushMask(c) \/ FlushHead(c) \/ FlushTail(c)
          \/ FlushCount(c) \/ FlushExit(c)

(***************************************************************************)
(* Task scheduler: state                                                   *)
(***************************************************************************)
\* the storage the callers provide for task descriptors
AllRecs == {"t1", "t2", "t3"}
\* a user task body; task bodies do not call the scheduler
Fn == "fn"
\* a pointer whose bytes were overwritten by the allocator
WILD == "wild"
\* half the range of the plannedTask field: how long after its due tick the
\* signed difference can still tell that a task is due
Half == 2 ^ (U32Bits - 1)

\* descriptor storage before minirtos_AddTask has written to it
BlankTask(st) ==
    [taskPointer |-> NULL, taskInterval |-> 0, plannedTask |-> 0,
     taskStatus |-> st, gptrTaskNext |-> NULL]

NoStep == [op |-> "none", ok |-> FALSE, st |-> 0]

\* history: the operation of this step, whether it returned success (for a
\* loop iteration: whether it invoked the callback) and, for
\* minirtos_GetTaskStatus, the status returned
Step(op, ok, st) == last' = [op |-> op, ok |-> ok, st |-> st]

\* Recs: the records the application uses; Garbage: the values their
\* taskStatus field may hold before the first AddTask (0 for static storage)
SInit(Recs, Garbage) ==
    /\ glbInitialized = FALSE
    /\ glbNumberOfTasks = 0
    /\ glbSysTicks = 0
    /\ gptrTaskSchedule = NULL
    /\ gptrTaskFirst = NULL
    /\ task \in [AllRecs -> {BlankTask(g) : g \in Garbage \cup {0}}]
    /\ \A t \in AllRecs \ Recs : task[t] = BlankTask(0)
    /\ fault = "none"
    /\ last = NoStep
    /\ added = << >>
    /\ addsOnly = TRUE

(***************************************************************************)
(* The tick source (external): glbSysTicks++ once per time unit            *)
(***************************************************************************)
Tick ==
    /\ fault = "none"
    /\ glbSysTicks' = (glbSysTicks + 1) % UMax
    /\ Step("tick", FALSE, 0)
    /\ UNCHANGED <<glbInitialized, glbNumberOfTasks, gptrTaskSchedule, gptrTaskFirst,
                   task, fault, added, addsOnly>>
    /\ UNCHANGED qvars

(***************************************************************************)
(* minirtos_Init                                                           *)
(***************************************************************************)
minirtos_Init ==
    /\ fault = "none"
    /\ glbInitialized' = TRUE
    /\ glbSysTicks' = 0
    /\ glbNumberOfTasks' = 0
    /\ gptrTaskSchedule' = NULL
    /\ Step("init", TRUE, 0)
    /\ added' = << >>
    /\ addsOnly' = TRUE
    /\ UNCHANGED <<gptrTaskFirst, task, fault>>
    /\ UNCHANGED qvars

(***************************************************************************)
(* minirtos_AddTask                                                        *)
(***************************************************************************)
\* while (p->gptrTaskNext != stop) p = p->gptrTaskNext;
\* the node found, "null_deref" when the walk reads through a NULL pointer,
\* "hang" when it circles without ever finding `stop`
RECURSIVE Walk(_, _, _)
Walk(p, stop, fuel) ==
    IF p = NULL THEN "null_deref"
    ELSE IF task[p].gptrTaskNext = stop THEN p
    ELSE IF fuel = 0 THEN "hang"
    ELSE Walk(task[p].gptrTaskNext, stop, fuel - 1)

WalkFrom(p, stop) == Walk(p, stop, Cardinality(AllRecs))

\* if ((taskInterval < 0) || (taskInterval > MAX_TASK_INTERVAL)), on a uint32_t
ClampInterval(taskInterval) ==
    IF (taskInterval < 0) \/ (taskInterval > MAX_TASK_INTERVAL)
    THEN DEFAULT_TASK_INTERVAL
    ELSE taskInterval

\* switch (taskStatus) ... default: taskStatus = TASK_SCHEDULED
CoerceStatus(taskStatus) ==
    IF taskStatus \in {TASK_PAUSE, TASK_SCHEDULED, TASK_ONE_SHOT, TASK_RUN_NOW,
                       TASK_ONE_SHOT_NOW}
    THEN taskStatus
    ELSE TASK_SCHEDULED

\* glbSysTicks + interval in uintmax_t, stored in the uint32_t plannedTask
PlanAfter(interval) == ((glbSysTicks + interval) % UMax) % U32

LinkLast_Self(tk, w, t) ==
    [tk EXCEPT ![w].gptrTaskNext = t, ![t].gptrTaskNext = t]

\* ptrNewTask->gptrTaskNext = ptrTaskDescriptor;
\* ptrTaskDescriptor->gptrTaskNext = gptrTaskFirst;
LinkLast(tk, w, t) ==
    [[tk EXCEPT ![w].gptrTaskNext = t] EXCEPT ![t].gptrTaskNext = gptrTaskFirst]

\* lines 306-320: the fields of the new descriptor
FillTask(tk, t, fn, interval, status) ==
    [tk EXCEPT ![t] =
        [taskPointer |-> fn,
         taskInterval |-> interval,
         plannedTask |-> IF status = TASK_RUN_NOW \/ status = TASK_ONE_SHOT_NOW
                         THEN glbSysTicks % U32
                         ELSE PlanAfter(interval),
         taskStatus |-> IF status = TASK_RUN_NOW \/ status = TASK_ONE_SHOT_NOW
                        THEN tk[t].taskStatus
                        ELSE status,
         gptrTaskNext |-> tk[t].gptrTaskNext]]

AddTask_ReturnFalse_Counted ==
    /\ Step("add", FALSE, 0)
    /\ glbNumberOfTasks' = (glbNumberOfTasks + 1) % U8
    /\ UNCHANGED <<gptrTaskSchedule, gptrTaskFirst, task, fault, added, addsOnly>>

\* free(ptrNewTask); return false;  (lines 245-246 and 327-328)
AddTask_ReturnFalse ==
    /\ Step("add", FALSE, 0)
    /\ UNCHANGED <<glbNumberOfTasks, gptrTaskSchedule, gptrTaskFirst, task, fault,
                   added, addsOnly>>

minirtos_AddTask(t, fn, taskInterval, taskStatus) ==
    /\ fault = "none"
    /\ IF (glbInitialized = FALSE) \/ (glbNumberOfTasks = MAX_TASKS_NUMBER) \/ (fn = NULL)
          \/ t = NULL
       THEN AddTask_ReturnFalse
       ELSE LET interval == ClampInterval(taskInterval)
                status == CoerceStatus(taskStatus)
                w == WalkFrom(gptrTaskSchedule, gptrTaskFirst)
            IN  IF gptrTaskFirst # NULL /\ w \in {"null_deref", "hang"}
                THEN /\ fault' = w
                     /\ Step("add", FALSE, 0)
                     /\ UNCHANGED <<glbNumberOfTasks, gptrTaskSchedule, gptrTaskFirst,
                                    task, added, addsOnly>>
                ELSE /\ IF gptrTaskFirst # NULL
                        THEN /\ task' = FillTask(LinkLast(task, w, t), t, fn, interval, status)
                             /\ UNCHANGED <<gptrTaskFirst, gptrTaskSchedule>>
                        ELSE /\ gptrTaskFirst' = t
                             /\ gptrTaskSchedule' = t
                             /\ task' = FillTask([task EXCEPT ![t].gptrTaskNext = t],
                                                 t, fn, interval, status)
                     /\ glbNumberOfTasks' = (glbNumberOfTasks + 1) % U8
                     /\ IF addsOnly /\ (\A i \in 1 .. Len(added) : added[i] # t)
                        THEN added' = Append(added, t) /\ UNCHANGED addsOnly
                        ELSE added' = << >> /\ addsOnly' = FALSE
                     /\ Step("add", TRUE, 0)
                     /\ UNCHANGED fault
    /\ UNCHANGED <<glbInitialized, glbSysTicks>>
    /\ UNCHANGED qvars

(***************************************************************************)
(* minirtos_RemoveTask                                                     *)
(***************************************************************************)
\* what free() of a descriptor that malloc() never returned may do:
\* return, overwrite the first word of the block, or crash
FreeOutcomes == {"returns", "corrupts", "fault"}

\* lines 361-368
Unlink(tk, p, t) ==
    IF tk[p].gptrTaskNext = gptrTaskFirst
    THEN tk
    ELSE [tk EXCEPT ![p].gptrTaskNext = tk[t].gptrTaskNext]

NewFirst(tk, p) ==
    IF tk[p].gptrTaskNext = gptrTaskFirst
    THEN tk[tk[p].gptrTaskNext].gptrTaskNext
    ELSE gptrTaskFirst

\* ptrNewTask after the walk of lines 353-359: the node in front of t,
\* which line 372 hands to free()
ptrNewTask(t) == WalkFrom(gptrTaskFirst, t)

minirtos_RemoveTask(t, outcome) ==
    /\ fault = "none"
    /\ IF (glbInitialized = FALSE) \/ (glbNumberOfTasks = MAX_TASKS_NUMBER) \/ (t = NULL)
       THEN /\ Step("remove", FALSE, 0)
            /\ UNCHANGED <<glbNumberOfTasks, gptrTaskFirst, task, fault, added,
                           addsOnly>>
       ELSE LET p == ptrNewTask(t)
            IN  IF p \in {"null_deref", "hang"}
                THEN /\ fault' = p
                     /\ Step("remove", FALSE, 0)
                     /\ UNCHANGED <<glbNumberOfTasks, gptrTaskFirst, task, added,
                                    addsOnly>>
                ELSE /\ gptrTaskFirst' = NewFirst(task, p)
                     /\ glbNumberOfTasks' = (glbNumberOfTasks - 1) % U8
                     \* free(ptrNewTask), ptrNewTask being the descriptor p
                     /\ task' = IF outcome = "corrupts"
                                THEN [Unlink(task, p, t) EXCEPT ![p].taskPointer = WILD]
                                ELSE Unlink(task, p, t)
                     /\ fault' = IF outcome = "fault" THEN "bad_free" ELSE "none"
                     /\ addsOnly' = FALSE
                     /\ added' = << >>
                     /\ Step("remove", TRUE, 0)
    /\ UNCHANGED <<glbInitialized, glbSysTicks, gptrTaskSchedule>>
    /\ UNCHANGED qvars

(***************************************************************************)
(* minirtos_PauseTask, minirtos_ResumeTask, minirtos_ModifyTask,           *)
(* minirtos_GetTaskStatus                                                  *)
(***************************************************************************)
NotInitialized_NullOnly(t) == t = NULL

\* if ((glbInitialized == FALSE) || (ptrTaskDescriptor == NULL)): the test
\* PauseTask, ResumeTask and GetTaskStatus open with
NotInitialized(t) == (glbInitialized = FALSE) \/ (t = NULL)

minirtos_PauseTask(t) ==
    /\ fault = "none"
    /\ IF NotInitialized(t)
       THEN /\ Step("pause", FALSE, 0)
            /\ UNCHANGED task
       ELSE /\ task' = [task EXCEPT ![t].taskStatus = TASK_PAUSE]
            /\ Step("pause", TRUE, 0)
    /\ UNCHANGED <<glbInitialized, glbNumberOfTasks, glbSysTicks, gptrTaskSchedule,
                   gptrTaskFirst, fault, added, addsOnly>>
    /\ UNCHANGED qvars

minirtos_ResumeTask(t) ==
    /\ fault = "none"
    /\ IF NotInitialized(t)
       THEN /\ Step("resume", FALSE, 0)
            /\ UNCHANGED task
       ELSE /\ task' = [task EXCEPT ![t].taskStatus = TASK_SCHEDULED,
                                    ![t].plannedTask = PlanAfter(task[t].taskInterval)]
            /\ Step("resume", TRUE, 0)
    /\ UNCHANGED <<glbInitialized, glbNumberOfTasks, glbSysTicks, gptrTaskSchedule,
                   gptrTaskFirst, fault, added, addsOnly>>
    /\ UNCHANGED qvars

minirtos_ModifyTask(t, taskInterval, taskStatus) ==
    /\ fault = "none"
    /\ IF (glbInitialized = FALSE) \/ (t = NULL) \/ (taskStatus > TASK_ONE_SHOT_NOW)
       THEN /\ Step("modify", FALSE, 0)
            /\ UNCHANGED task
       ELSE /\ task' = [task EXCEPT
                          ![t].taskInterval = taskInterval,
                          ![t].taskStatus = taskStatus,
                          ![t].plannedTask =
                              IF taskStatus = TASK_SCHEDULED \/ taskStatus = TASK_ONE_SHOT
                              THEN PlanAfter(taskInterval)
                              ELSE 0]
            /\ Step("modify", TRUE, 0)
    /\ UNCHANGED <<glbInitialized, glbNumberOfTasks, glbSysTicks, gptrTaskSchedule,
                   gptrTaskFirst, fault, added, addsOnly>>
    /\ UNCHANGED qvars

minirtos_GetTaskStatus(t) ==
    /\ fault = "none"
    /\ IF NotInitialized(t)
       THEN Step("status", FALSE, TASK_NOT_FOUND)
       ELSE Step("status", TRUE, task[t].taskStatus)
    /\ UNCHANGED <<glbInitialized, glbNumberOfTasks, glbSysTicks, gptrTaskSchedule,
                   gptrTaskFirst, task, fault, added, addsOnly>>
    /\ UNCHANGED qvars

(***************************************************************************)
(* minirtos_Scheduler: one iteration of the while (1) loop                 *)
(***************************************************************************)
\* a uintmax_t value read as intmax_t
Signed(x) == IF x >= UMax \div 2 THEN x - UMax ELSE x

\* intmax_t elapsedTime = (plannedTask - glbSysTicks), in uintmax_t arithmetic
ElapsedTime(plannedTask, now) == Signed((plannedTask - now) % UMax)

\* if (elapsedTime <= ZERO)
TaskDue(plannedTask, now) == ElapsedTime(plannedTask, now) <= 0

\* if (gptrTaskSchedule->taskStatus & TASK_ONE_SHOT)
IsOneShot(taskStatus) == (taskStatus \div TASK_ONE_SHOT) % 2 = 1

Advance_Stay(tk, c) == c

\* gptrTaskSchedule = gptrTaskSchedule->gptrTaskNext;
Advance(tk, c) == tk[c].gptrTaskNext

IsRunnable_Always(taskStatus) == TRUE

\* if (gptrTaskSchedule->taskStatus > TASK_PAUSE)
IsRunnable(taskStatus) == taskStatus > TASK_PAUSE

minirtos_Scheduler ==
    /\ fault = "none"
    /\ IF gptrTaskSchedule # NULL /\ glbNumberOfTasks # 0
       THEN LET c == gptrTaskSchedule
                st == task[c].taskStatus
                fires == IsRunnable(st) /\ TaskDue(task[c].plannedTask, glbSysTicks)
                after == IF ~fires THEN task
                         ELSE IF IsOneShot(st)
                         THEN [task EXCEPT ![c].taskStatus = TASK_PAUSE]
                         ELSE [task EXCEPT ![c].plannedTask = PlanAfter(task[c].taskInterval)]
            IN  IF fires /\ task[c].taskPointer # Fn
                THEN \* the call goes through a NULL or overwritten pointer
                     /\ fault' = "wild_call"
                     /\ Step("dispatch", FALSE, 0)
                     /\ UNCHANGED <<task, gptrTaskSchedule>>
                ELSE /\ task' = after
                     /\ gptrTaskSchedule' = Advance(after, c)
                     /\ Step("dispatch", fires, 0)
                     /\ UNCHANGED fault
       ELSE /\ Step("dispatch", FALSE, 0)
            /\ UNCHANGED <<task, gptrTaskSchedule, fault>>
    /\ UNCHANGED <<glbInitialized, glbNumberOfTasks, glbSysTicks, gptrTaskFirst,
                   added, addsOnly>>
    /\ UNCHANGED qvars

(***************************************************************************)
(* Specifications                                                          *)
(***************************************************************************)
\* the queue, used by main-line code and one interrupt handler
QueueInit == QInit /\ SInit({}, {})
QueueSpec == QueueInit /\ [][QNext]_vars

\* the calls an application makes: every combination of the arguments
\* given, and one call for each absent argument
AddCalls(Recs, Ivals, Stats) ==
    (Recs \X {Fn} \X Ivals \X Stats)
        \cup {<<NULL, Fn, DEFAULT_TASK_INTERVAL, TASK_SCHEDULED>>}
        \cup (Recs \X {NULL} \X {DEFAULT_TASK_INTERVAL} \X {TASK_SCHEDULED})

ModifyCalls(Recs, Ivals, Stats) ==
    (Recs \X Ivals \X Stats) \cup {<<NULL, DEFAULT_TASK_INTERVAL, TASK_SCHEDULED>>}

\* the scheduler with one record, every period and state, and the tick
\* counter running through its whole range; the application initialises
\* once and never removes a task
TimeRecs == {"t1"}
TimeIvals == {0, 1, MAX_TASK_INTERVAL, MAX_TASK_INTERVAL + 1}
TimeAddStats == {TASK_PAUSE, TASK_SCHEDULED, TASK_ONE_SHOT, TASK_RUN_NOW,
                 TASK_ONE_SHOT_NOW, TASK_RUNNING}
TimeModifyStats == {TASK_SCHEDULED, TASK_ONE_SHOT, TASK_RUN_NOW, 4,
                    TASK_ONE_SHOT_NOW, TASK_RUNNING}
TimeInit == QInit /\ SInit(TimeRecs, {TASK_ONE_SHOT_NOW})
TimeNext ==
    \/ glbInitialized = FALSE /\ minirtos_Init
    \/ \E a \in AddCalls(TimeRecs, TimeIvals, TimeAddStats) :
          minirtos_AddTask(a[1], a[2], a[3], a[4])
    \/ \E t \in TimeRecs \cup {NULL} : minirtos_PauseTask(t)
    \/ \E t \in TimeRecs \cup {NULL} : minirtos_ResumeTask(t)
    \/ \E m \in ModifyCalls(TimeRecs, TimeIvals, TimeModifyStats) :
          minirtos_ModifyTask(m[1], m[2], m[3])
    \/ \E t \in TimeRecs \cup {NULL} : minirtos_GetTaskStatus(t)
    \/ minirtos_Scheduler
    \/ Tick
TimeSpec == TimeInit /\ [][TimeNext]_vars

\* the task list with three records of static storage, at one instant: the
\* application adds, removes and dispatches, and may initialise again
ListRecs == AllRecs
ListIvals == {1}
ListStats == {TASK_SCHEDULED}
ListInit == QInit /\ SInit(ListRecs, {})
ListNext ==
    \/ minirtos_Init
    \/ \E a \in AddCalls(ListRecs, ListIvals, ListStats) :
          minirtos_AddTask(a[1], a[2], a[3], a[4])
    \/ \E t \in ListRecs \cup {NULL}, o \in FreeOutcomes : minirtos_RemoveTask(t, o)
    \/ \E t \in ListRecs \cup {NULL} : minirtos_GetTaskStatus(t)
    \/ minirtos_Scheduler
ListSpec == ListInit /\ [][ListNext]_vars

\* the task list as in ListSpec, for an application that initialises the
\* scheduler once
OnceInit == QInit /\ SInit(ListRecs, {})
OnceNext ==
    \/ glbInitialized = FALSE /\ minirtos_Init
    \/ \E a \in AddCalls(ListRecs, ListIvals, ListStats) :
          minirtos_AddTask(a[1], a[2], a[3], a[4])
    \/ \E t \in ListRecs \cup {NULL}, o \in FreeOutcomes : minirtos_RemoveTask(t, o)
    \/ minirtos_Scheduler
OnceSpec == OnceInit /\ [][OnceNext]_vars

\* the dispatch loop over two records that the application adds, pauses and
\* resumes, with the tick interrupt. The loop never blocks and completes at
\* least one iteration in every tick period, and the tick counter keeps
\* advancing.
LiveRecs == {"t1", "t2"}
LiveIvals == {1}
LiveStats == {TASK_SCHEDULED}
\* the record the application pauses and resumes
LivePaused == {"t2"}
LiveInit == QInit /\ SInit(LiveRecs, {})
Invoke(t) == minirtos_Scheduler /\ gptrTaskSchedule = t /\ last'.ok
LiveTick == last.op = "dispatch" /\ Tick
LiveNext ==
    \/ glbInitialized = FALSE /\ minirtos_Init
    \/ \E a \in AddCalls(LiveRecs, LiveIvals, LiveStats) :
          minirtos_AddTask(a[1], a[2], a[3], a[4])
    \/ \E t \in LivePaused : minirtos_PauseTask(t)
    \/ \E t \in LivePaused : minirtos_ResumeTask(t)
    \/ minirtos_Scheduler
    \/ LiveTick
LiveFair ==
    /\ SF_vars(LiveTick)
    /\ WF_vars(minirtos_Scheduler)
LiveSpec == LiveInit /\ [][LiveNext]_vars /\ LiveFair

\* the largest value the tick counter reaches in ApiSpec
MaxApiTicks == 1

\* every operation of the scheduler API on two records of static storage
ApiRecs == {"t1", "t2"}
ApiIvals == {1}
ApiStats == {TASK_SCHEDULED, TASK_ONE_SHOT, TASK_RUNNING}
ApiInit == QInit /\ SInit(ApiRecs, {})
ApiNext ==
    \/ minirtos_Init
    \/ \E a \in AddCalls(ApiRecs, ApiIvals, ApiStats) :
          minirtos_AddTask(a[1], a[2], a[3], a[4])
    \/ \E t \in ApiRecs \cup {NULL}, o \in FreeOutcomes : minirtos_RemoveTask(t, o)
    \/ \E t \in ApiRecs \cup {NULL} : minirtos_PauseTask(t)
    \/ \E t \in ApiRecs \cup {NULL} : minirtos_ResumeTask(t)
    \/ \E m \in ModifyCalls(ApiRecs, ApiIvals, ApiStats) :
          minirtos_ModifyTask(m[1], m[2], m[3])
    \/ \E t \in ApiRecs \cup {NULL} : minirtos_GetTaskStatus(t)
    \/ minirtos_Scheduler
    \/ glbSysTicks < MaxApiTicks /\ Tick
ApiSpec == ApiInit /\ [][ApiNext]_vars

\* main-line code alone, using the queue and the scheduler with one record
MainRecs == {"t1"}
MainElementSizes == {0, 2}
MainCapacities == {0, 1, 2}
MainInit == QInit /\ SInit(MainRecs, {})
MainNext ==
    \/ \E p \in BOOLEAN, b \in BOOLEAN, es \in MainElementSizes, n \in MainCapacities :
          minirtos_Queue_Create(p, b, es, n)
    \/ \E b \in Bytes : b = nSends + 1 /\ SendCall("main", b)
    \/ SendMask("main") \/ SendCheck("main") \/ SendCopy("main") \/ SendTail("main")
    \/ SendCount("main") \/ SendExit("main")
    \/ ReceiveCall("main") \/ ReceiveMask("main") \/ ReceiveCheck("main")
    \/ ReceiveCopy("main") \/ ReceiveHead("main") \/ ReceiveCount("main")
    \/ ReceiveExit("main")
    \/ minirtos_Queue_Count("main")
    \/ minirtos_Init
    \/ \E a \in AddCalls(MainRecs, {DEFAULT_TASK_INTERVAL}, {TASK_SCHEDULED}) :
          minirtos_AddTask(a[1], a[2], a[3], a[4])
    \/ minirtos_Scheduler
MainSpec == MainInit /\ [][MainNext]_vars

(***************************************************************************)
(* Queue claims                                                            *)
(***************************************************************************)
\* positions between __set_PRIMASK(1) and __set_PRIMASK(primask)
CriticalPcs == {"send_check", "send_copy", "send_tail", "send_count", "send_exit",
                "recv_check", "recv_copy", "recv_head", "recv_count", "recv_exit",
                "flush_head", "flush_tail", "flush_count", "flush_exit"}

\* context c leaves the position `at` in this step
Leaves(c, at) == pc[c] = at /\ pc'[c] # at

\* context c returns from its call in this step
Returns(c) == pc[c] # Rest(c) /\ pc'[c] = Rest(c)

\* C1: 0 <= count <= capacity in every reachable state of a created queue;
\* a Send returns failure exactly when the queue holds capacity elements
\* when it is checked, a Receive returns failure exactly when it holds none,
\* and a call that passes the check returns success.
C1_CountBoundsAndFailures ==
    /\ [](qCreated => (q.count >= 0 /\ q.count <= q.maxElements))
    /\ [][\A c \in Ctx :
            /\ Leaves(c, "send_check") =>
                  /\ (Returns(c) <=> (q.count = q.maxElements))
                  /\ (Returns(c) <=> (Pending = q.maxElements))
                  /\ (Returns(c) => (qret'.op = "send" /\ ~qret'.ok))
            /\ Leaves(c, "send_exit") => (qret'.op = "send" /\ qret'.ok)
            /\ Leaves(c, "recv_check") =>
                  /\ (Returns(c) <=> (q.count = 0))
                  /\ (Returns(c) <=> (Pending = 0))
                  /\ (Returns(c) => (qret'.op = "receive" /\ ~qret'.ok))
            /\ Leaves(c, "recv_exit") => (qret'.op = "receive" /\ qret'.ok)]_vars

\* capacity 3: three sends succeeded, the fourth failed, one receive
\* succeeded and Count returned 2
C1_Witness ==
    /\ q.maxElements = 3 /\ nSends = 4
    /\ Len(sentLog) = 3 /\ Len(recvLog) = 1
    /\ qret.op = "count" /\ qret.value = 2

\* C2: the k-th successful Receive since the last Create/Flush returns,
\* byte for byte, the element of the k-th successful Send.
C2_FifoBitIdentical ==
    /\ Len(recvLog) <= Len(sentLog)
    /\ \A k \in 1 .. Len(recvLog) : recvLog[k] = sentLog[k]

C4_MaskRestoredOnEveryExit ==
    [][\A c \in Ctx : Returns(c) => PRIMASK' = loc[c].entryMask]_vars

\* main-line called Send on a full queue from inside a masked region: the
\* early return left interrupts masked
C4_Witness ==
    /\ qret.ctx = "main" /\ qret.op = "send" /\ ~qret.ok
    /\ pc["main"] = "idle" /\ PRIMASK = 1


(***************************************************************************)
(* Scheduler claims                                                        *)
(***************************************************************************)
ApiOps == {"add", "remove", "pause", "resume", "modify", "status"}

\* C5: before minirtos_Init has been called, AddTask, RemoveTask, PauseTask,
\* ResumeTask and ModifyTask return failure and GetTaskStatus returns
\* TASK_NOT_FOUND, whatever the arguments, and the step changes neither the
\* list head, the task count, the cursor nor any field of any task record.
C5_FailsHarmlesslyBeforeInit ==
    [][(glbInitialized = FALSE /\ last'.op \in ApiOps)
         => /\ last'.ok = FALSE
            /\ (last'.op = "status" => last'.st = TASK_NOT_FOUND)
            /\ UNCHANGED <<gptrTaskFirst, glbNumberOfTasks, gptrTaskSchedule, task,
                           fault, glbInitialized>>]_vars

C5_Witness ==
    /\ glbInitialized = FALSE
    /\ last.op = "status"
    /\ last.st = TASK_NOT_FOUND
    /\ glbSysTicks > 0

\* C6: when a dispatch iteration invokes the callback of a task whose state
\* is TASK_ONE_SHOT or TASK_ONE_SHOT_NOW, it leaves the task in TASK_PAUSE,
\* so that the callback is not invoked again before a Resume or Modify.
C6_OneShotPausedAfterFiring ==
    [][(/\ last'.op = "dispatch"
        /\ last'.ok
        /\ gptrTaskSchedule \in AllRecs
        /\ task[gptrTaskSchedule].taskStatus \in {TASK_ONE_SHOT, TASK_ONE_SHOT_NOW})
         => task'[gptrTaskSchedule].taskStatus = TASK_PAUSE]_vars

\* C7: a successful AddTask asking for TASK_RUN_NOW or TASK_ONE_SHOT_NOW
\* leaves the record with plannedTask equal to the current tick and with
\* the state asked for, whatever the record held before the call.
C7_RunNowRegistered ==
    [][\A t \in AllRecs, iv \in TimeIvals, st \in {TASK_RUN_NOW, TASK_ONE_SHOT_NOW} :
          (minirtos_AddTask(t, Fn, iv, st) /\ last'.ok)
             => /\ task'[t].plannedTask = glbSysTicks
                /\ task'[t].taskStatus = st]_vars

\* the due test the dispatch loop will make on `plannedTask` at each of the
\* ticks that follow tick `now`: not due before `period` ticks have passed,
\* due from then on for half the range of the field
JudgedCorrectly(plannedTask, now, period) ==
    \A j \in 0 .. period + Half - 1 :
        TaskDue(plannedTask, (now + j) % UMax) <=> (j >= period)

\* C8: a plannedTask computed as now + period, for a period below half the
\* range, is judged correctly by the signed-difference rule at every later
\* tick, across a wrap of the tick counter too.
C8_DueAcrossWrap ==
    [][\A t \in AllRecs :
          (minirtos_ResumeTask(t) /\ last'.ok /\ task[t].taskInterval < Half)
             => JudgedCorrectly(task'[t].plannedTask, glbSysTicks, task[t].taskInterval)]_vars

RECURSIVE StepsFrom(_, _)
StepsFrom(p, k) == IF k = 0 THEN p ELSE StepsFrom(task[p].gptrTaskNext, k - 1)

\* C9: after minirtos_Init and N >= 1 successful AddTask calls on distinct
\* records, with no removal, the first record added is the head, every
\* record links to the one added after it and the last one to the head,
\* N steps from the head lead back to the head and fewer do not, and the
\* task count is N.
C9_CircleInRegistrationOrder ==
    (glbInitialized = TRUE /\ addsOnly /\ Len(added) >= 1 /\ fault = "none")
        => LET N == Len(added)
           IN  /\ gptrTaskFirst = added[1]
               /\ \A i \in 1 .. N :
                     task[added[i]].gptrTaskNext = (IF i < N THEN added[i + 1] ELSE added[1])
               /\ StepsFrom(gptrTaskFirst, N) = gptrTaskFirst
               /\ \A k \in 1 .. N - 1 : StepsFrom(gptrTaskFirst, k) # gptrTaskFirst
               /\ glbNumberOfTasks = N

C9_Witness ==
    /\ addsOnly
    /\ Len(added) = Cardinality(ListRecs)
    /\ last.op = "add"
    /\ last.ok
    /\ gptrTaskSchedule # gptrTaskFirst

\* C10: a successful AddTask stores the period asked for when it lies in
\* 1 .. MAX_TASK_INTERVAL and DEFAULT_TASK_INTERVAL otherwise, a period of 0
\* included.
C10_PeriodClamped ==
    [][\A t \in AllRecs, iv \in TimeIvals, st \in TimeAddStats :
          (minirtos_AddTask(t, Fn, iv, st) /\ last'.ok)
             => task'[t].taskInterval =
                   (IF iv \in 1 .. MAX_TASK_INTERVAL THEN iv ELSE DEFAULT_TASK_INTERVAL)]_vars


\* the records reached from `head` by next-links in the descriptors tk
RECURSIVE ReachFrom(_, _, _)
ReachFrom(tk, p, seen) ==
    IF p \notin AllRecs \/ p \in seen THEN seen
    ELSE ReachFrom(tk, tk[p].gptrTaskNext, seen \cup {p})

Members(tk, head) == ReachFrom(tk, head, {})

\* the descriptors tk form one circle through `head` (or the list is empty)
\* and n is the number of its records
WellFormed(tk, head, n) ==
    /\ n = Cardinality(Members(tk, head))
    /\ \A m \in Members(tk, head) :
          /\ tk[m].gptrTaskNext \in Members(tk, head)
          /\ \A k \in Members(tk, head) \ {m} : tk[k].gptrTaskNext # tk[m].gptrTaskNext

\* C11: after a successful RemoveTask of a record T linked in a well-formed
\* circle, no record reached from the head is T or links to T, and if T was
\* the head the new head is the former second node, or none if T was alone.
C11_RemovedLeavesCircle ==
    [][\A t \in AllRecs, o \in FreeOutcomes :
          (/\ minirtos_RemoveTask(t, o)
           /\ last'.ok
           /\ WellFormed(task, gptrTaskFirst, glbNumberOfTasks)
           /\ t \in Members(task, gptrTaskFirst))
             => /\ t \notin Members(task', gptrTaskFirst')
                /\ \A m \in Members(task', gptrTaskFirst') : task'[m].gptrTaskNext # t
                /\ (t = gptrTaskFirst =>
                      gptrTaskFirst' = (IF task[t].gptrTaskNext = t THEN NULL
                                        ELSE task[t].gptrTaskNext))]_vars

\* C12: the block a successful RemoveTask hands to free() is never a task
\* record of the caller, so that the call neither crashes in the allocator
\* nor alters a field of a record other than a link.
C12_NeverFreesCallerRecord ==
    [][\A t \in AllRecs, o \in FreeOutcomes :
          (minirtos_RemoveTask(t, o) /\ last'.ok)
             => /\ ptrNewTask(t) \notin AllRecs
                /\ fault' = "none"
                /\ \A r \in AllRecs : task'[r].taskPointer = task[r].taskPointer]_vars


\* C13: a failing call changes nothing: an AddTask that returns failure
\* leaves links, head, cursor, count and records as they were; a Send that
\* finds the queue full and a Receive that finds it empty leave head, tail,
\* count and buffer (and the Receive its destination) as they were; a Create
\* that fails leaves the descriptor as it was.
C13_FailuresChangeNothing ==
    [][/\ (last'.op = "add" /\ last'.ok = FALSE)
            => UNCHANGED <<task, gptrTaskFirst, gptrTaskSchedule, glbNumberOfTasks>>
       /\ \A c \in Ctx :
             /\ (pc[c] # pc'[c] /\ pc'[c] \in {"send_mask", "send_check", "recv_mask",
                                              "recv_check"})
                   => UNCHANGED <<q, qbuf>>
             /\ (Leaves(c, "send_check") /\ Returns(c))
                   => (qret'.ok = FALSE /\ UNCHANGED <<q, qbuf>>)
             /\ (Leaves(c, "recv_check") /\ Returns(c))
                   => /\ qret'.ok = FALSE
                      /\ UNCHANGED <<q, qbuf>>
                      /\ rx'[c] = Msg(Blank, q.elementSize)
       /\ (qret'.op = "create" /\ qret'.ok = FALSE)
            => UNCHANGED <<q, qbuf, qCreated>>]_vars

\* AddTask has failed on a full task list, and a Send on a full queue
C13_Witness ==
    /\ last.op = "add" /\ last.ok = FALSE
    /\ glbNumberOfTasks = MAX_TASKS_NUMBER
    /\ qret.op = "send" /\ qret.ok = FALSE
    /\ q.count = q.maxElements /\ q.maxElements = 2


\* C14: a Count that follows a Flush returns 0; Flush leaves head, tail and
\* count at 0; after a Flush a Send fails exactly when capacity elements
\* sent since the Flush are still queued; and every element a Receive
\* returns after a Flush is an element sent after it.
C14_FlushLeavesFreshQueue ==
    /\ [][(qret.op = "flush" /\ qret'.op = "count") => qret'.value = 0]_vars
    /\ [][\A c \in Ctx :
            /\ Leaves(c, "flush_exit") => (q'.head = 0 /\ q'.tail = 0 /\ q'.count = 0)
            /\ (flushed /\ Leaves(c, "send_check"))
                  => (Returns(c) <=> (Pending = q.maxElements))]_vars
    /\ [](flushed => \A k \in 1 .. Len(recvLog) :
                        \E i \in 1 .. Len(sentLog) : recvLog[k] = sentLog[i])


\* C15: Create with a descriptor, a buffer, an element size and a capacity
\* c, none of them absent or zero, succeeds and leaves an empty queue with
\* head = tail = 0 whose capacity is the smaller of c and
\* MAX_NO_OF_QUEUE_ELEMENTS; the capacity never changes afterwards, and of
\* the Sends that follow the Create exactly that many succeed before one
\* fails.
C15_CreateClampsCapacity ==
    /\ [][\A es \in ElementSizes \ {0}, n \in Capacities \ {0} :
            minirtos_Queue_Create(TRUE, TRUE, es, n)
               => /\ qret'.op = "create" /\ qret'.ok
                  /\ q' = [elementSize |-> es,
                           maxElements |-> IF n < MAX_NO_OF_QUEUE_ELEMENTS
                                           THEN n ELSE MAX_NO_OF_QUEUE_ELEMENTS,
                           head |-> 0, tail |-> 0, count |-> 0]]_vars
    /\ [][qCreated => q'.maxElements = q.maxElements]_vars
    /\ [][\A c \in Ctx :
            (~flushed /\ Len(recvLog) = 0 /\ Leaves(c, "send_check"))
               => (Returns(c) <=> (Len(sentLog) = q.maxElements))]_vars

\* a queue holds MAX_NO_OF_QUEUE_ELEMENTS elements after as many Sends, and
\* the next Send has failed
C15_Witness ==
    /\ q.maxElements = MAX_NO_OF_QUEUE_ELEMENTS
    /\ ~flushed /\ Len(recvLog) = 0
    /\ Len(sentLog) = MAX_NO_OF_QUEUE_ELEMENTS
    /\ nSends = MAX_NO_OF_QUEUE_ELEMENTS + 1
    /\ qret.op = "send" /\ ~qret.ok


\* C16: from a well-formed circle, a successful AddTask of a record not in
\* it and a successful RemoveTask of a record in it leave a well-formed
\* circle (the last record links back to the head, a single record to
\* itself) whose records are the former ones with that record added,
\* respectively taken out, and whose size is the task count.
C16_CircleIsAddedMinusRemoved ==
    [][\A t \in AllRecs :
          WellFormed(task, gptrTaskFirst, glbNumberOfTasks)
             => /\ \A a \in AddCalls({t}, ListIvals, ListStats) :
                      (/\ minirtos_AddTask(a[1], a[2], a[3], a[4])
                       /\ last'.ok
                       /\ t \notin Members(task, gptrTaskFirst))
                         => /\ WellFormed(task', gptrTaskFirst', glbNumberOfTasks')
                            /\ Members(task', gptrTaskFirst') =
                                  Members(task, gptrTaskFirst) \cup {t}
                /\ \A o \in FreeOutcomes :
                      (/\ minirtos_RemoveTask(t, o)
                       /\ last'.ok
                       /\ t \in Members(task, gptrTaskFirst))
                         => /\ WellFormed(task', gptrTaskFirst', glbNumberOfTasks')
                            /\ Members(task', gptrTaskFirst') =
                                  Members(task, gptrTaskFirst) \ {t}]_vars

\* C17: after a successful RemoveTask of a record T of a well-formed circle
\* the dispatch cursor is one of the records that remain, or NULL if none
\* remains; it is never T.
C17_CursorStaysInCircle ==
    [][\A t \in AllRecs, o \in FreeOutcomes :
          (/\ minirtos_RemoveTask(t, o)
           /\ last'.ok
           /\ WellFormed(task, gptrTaskFirst, glbNumberOfTasks)
           /\ t \in Members(task, gptrTaskFirst))
             => IF Members(task, gptrTaskFirst) = {t}
                THEN gptrTaskSchedule' = NULL
                ELSE gptrTaskSchedule' \in Members(task, gptrTaskFirst) \ {t}]_vars


\* C18: a dispatch that runs a task whose state is TASK_SCHEDULED or
\* TASK_RUN_NOW leaves that state as it was and sets plannedTask to
\* now + taskInterval.
C18_PeriodicKeepsItsState ==
    [][(/\ minirtos_Scheduler
        /\ last'.ok
        /\ gptrTaskSchedule \in AllRecs
        /\ task[gptrTaskSchedule].taskStatus \in {TASK_SCHEDULED, TASK_RUN_NOW})
          => /\ task'[gptrTaskSchedule].taskStatus = task[gptrTaskSchedule].taskStatus
             /\ task'[gptrTaskSchedule].plannedTask =
                   PlanAfter(task[gptrTaskSchedule].taskInterval)]_vars

\* C19: a dispatch iteration whose cursor stands on a task in state
\* TASK_PAUSE runs nothing and changes no record, whatever the tick counter
\* and plannedTask are; a successful PauseTask writes TASK_PAUSE into the
\* state of its record and changes no other field, record or list pointer.
C19_PausedNeverRuns ==
    /\ [][(/\ minirtos_Scheduler
           /\ gptrTaskSchedule \in AllRecs
           /\ task[gptrTaskSchedule].taskStatus = TASK_PAUSE)
             => /\ ~last'.ok
                /\ task' = task
                /\ fault' = "none"]_vars
    /\ [][\A t \in AllRecs :
            (minirtos_PauseTask(t) /\ last'.ok)
               => /\ task' = [task EXCEPT ![t].taskStatus = TASK_PAUSE]
                  /\ UNCHANGED <<gptrTaskFirst, gptrTaskSchedule, glbNumberOfTasks>>]_vars

\* the dispatcher has just passed over a paused task whose plannedTask lies
\* more than a whole period in the past
C19_Witness ==
    /\ last.op = "dispatch" /\ ~last.ok
    /\ glbNumberOfTasks = 1 /\ gptrTaskSchedule = "t1"
    /\ task["t1"].taskStatus = TASK_PAUSE
    /\ task["t1"].taskPointer = Fn
    /\ glbSysTicks < U32
    /\ glbSysTicks > task["t1"].plannedTask + MAX_TASK_INTERVAL

\* the signed-difference rule does not find plannedTask due at any of the
\* `period` ticks that begin at `now`
NotDueBefore(plannedTask, now, period) ==
    \A j \in 0 .. period - 1 : ~TaskDue(plannedTask, (now + j) % UMax)

\* C20: the plannedTask that a periodic reschedule in the dispatcher, or an
\* AddTask in a state other than the two run-at-once ones, stores is not
\* found due at any tick before taskInterval ticks have gone by, whatever
\* the value of the tick counter.
C20_NeverBeforeDue ==
    /\ [][(/\ minirtos_Scheduler
           /\ last'.ok
           /\ gptrTaskSchedule \in AllRecs
           /\ ~IsOneShot(task[gptrTaskSchedule].taskStatus))
             => NotDueBefore(task'[gptrTaskSchedule].plannedTask, glbSysTicks,
                             task[gptrTaskSchedule].taskInterval)]_vars
    /\ [][\A a \in AddCalls(AllRecs, TimeIvals, TimeAddStats \ {TASK_RUN_NOW, TASK_ONE_SHOT_NOW}) :
            (minirtos_AddTask(a[1], a[2], a[3], a[4]) /\ last'.ok)
               => NotDueBefore(task'[a[1]].plannedTask, glbSysTicks,
                               task'[a[1]].taskInterval)]_vars


\* C21: minirtos_Init leaves the task count 0, the subsystem initialised and
\* both the list head and the dispatch cursor NULL, whatever was linked
\* before; the AddTask of a record and a callback that follows it succeeds
\* and makes the record the head, the cursor and its own successor.
C21_InitClearsList ==
    /\ [][minirtos_Init
            => /\ glbInitialized' = TRUE
               /\ glbNumberOfTasks' = 0
               /\ gptrTaskFirst' = NULL
               /\ gptrTaskSchedule' = NULL]_vars
    /\ [][\A a \in AllRecs \X {Fn} \X ListIvals \X ListStats :
            (last.op = "init" /\ minirtos_AddTask(a[1], a[2], a[3], a[4]))
               => /\ last'.ok
                  /\ fault' = "none"
                  /\ gptrTaskFirst' = a[1]
                  /\ gptrTaskSchedule' = a[1]
                  /\ task'[a[1]].gptrTaskNext = a[1]
                  /\ glbNumberOfTasks' = 1]_vars


\* t is reached from the head and its state is a periodic, non-paused one
LinkedPeriodic(t) ==
    /\ fault = "none"
    /\ t \in Members(task, gptrTaskFirst)
    /\ task[t].taskStatus = TASK_SCHEDULED

C23_ModifyRejectsInvalidState ==
    [][\A m \in ModifyCalls(AllRecs, TimeIvals, TimeModifyStats \cup {TASK_PAUSE, TASK_NOT_FOUND}) :
          minirtos_ModifyTask(m[1], m[2], m[3])
             => IF \/ glbInitialized = FALSE
                   \/ m[1] = NULL
                   \/ m[3] \notin {TASK_PAUSE, TASK_SCHEDULED, TASK_ONE_SHOT,
                                   TASK_RUN_NOW, TASK_ONE_SHOT_NOW}
                THEN ~last'.ok /\ task' = task
                ELSE /\ last'.ok
                     /\ task'[m[1]].taskInterval = m[2]
                     /\ task'[m[1]].taskStatus = m[3]]_vars


\* the places of Send, Receive and Flush between their first and their last
\* write to head, tail and count
MidUpdate == {"send_count", "recv_count", "flush_tail", "flush_count"}

\* C24: in a created queue head and tail are below the capacity in every
\* state; and whenever no call stands between its writes to head, tail and
\* count, (tail - head) mod capacity equals count mod capacity, and head
\* equals tail exactly when count is 0 or the capacity.
C24_HeadTailCountAgree ==
    qCreated =>
       /\ q.head \in 0 .. q.maxElements - 1
       /\ q.tail \in 0 .. q.maxElements - 1
       /\ (\A c \in Ctx : pc[c] \notin MidUpdate) =>
             /\ (q.tail - q.head) % q.maxElements = q.count % q.maxElements
             /\ (q.head = q.tail) <=> (q.count = 0 \/ q.count = q.maxElements)

\* a full queue whose tail has wrapped round onto a head that has moved
C24_Witness ==
    /\ qCreated
    /\ \A c \in Ctx : pc[c] \notin CriticalPcs
    /\ q.maxElements = MAX_NO_OF_QUEUE_ELEMENTS
    /\ q.count = q.maxElements
    /\ q.head = q.tail /\ q.head > 0


\* C25: the copy of a Send writes the message to the bytes
\* tail * elementSize .. tail * elementSize + elementSize - 1 of the buffer
\* and to no other byte, and the copy of a Receive reads the bytes
\* head * elementSize .. head * elementSize + elementSize - 1, the products
\* being taken without reduction to 16 bits.
C25_SlotOffsetsExact ==
    /\ [][\A c \in Ctx :
            SendCopy(c)
               => \A j \in DOMAIN qbuf :
                     qbuf'[j] = IF /\ j >= q.tail * q.elementSize
                                   /\ j < q.tail * q.elementSize + q.elementSize
                                THEN loc[c].msg[j - q.tail * q.elementSize]
                                ELSE qbuf[j]]_vars
    /\ [][\A c \in Ctx :
            ReceiveCopy(c)
               => \A j \in 0 .. q.elementSize - 1 :
                     rx'[c][j] = qbuf[q.head * q.elementSize + j]]_vars



\* the number of times the body of a walk's while loop runs
RECURSIVE WalkSteps(_, _, _)
WalkSteps(p, stop, fuel) ==
    IF p = NULL \/ fuel = 0 THEN 0
    ELSE IF task[p].gptrTaskNext = stop THEN 0
    ELSE 1 + WalkSteps(task[p].gptrTaskNext, stop, fuel - 1)

\* C26: with the scheduler initialised, the walk of an AddTask of a record
\* and a callback and the walk of a RemoveTask of a record reached from the
\* head both come to an end: neither call runs round the list for ever or
\* reads through a NULL pointer, and the loop body runs at most as many
\* times as the task count says.
C26_WalksTerminate ==
    /\ [][\A a \in AllRecs \X {Fn} \X ListIvals \X ListStats :
            (glbInitialized = TRUE /\ minirtos_AddTask(a[1], a[2], a[3], a[4]))
               => /\ fault' \notin {"hang", "null_deref"}
                  /\ (last'.ok /\ gptrTaskFirst # NULL) =>
                        WalkSteps(gptrTaskSchedule, gptrTaskFirst, Cardinality(AllRecs))
                           <= glbNumberOfTasks]_vars
    /\ [][\A t \in AllRecs, o \in FreeOutcomes :
            (/\ glbInitialized = TRUE
             /\ t \in Members(task, gptrTaskFirst)
             /\ minirtos_RemoveTask(t, o))
               => /\ fault' \notin {"hang", "null_deref"}
                  /\ last'.ok =>
                        WalkSteps(gptrTaskFirst, t, Cardinality(AllRecs))
                           <= glbNumberOfTasks]_vars

====
